---- MODULE Spec2Model ----
(***************************************************************************)
(* PolicyStack marketplace: the registry builder (scripts/build-registry.py)*)
(* and the template validator (scripts/validate-template.py), modelled as   *)
(* two sequential programs over a template tree.                            *)
(*                                                                          *)
(* Values of the YAML documents are abstracted as follows.  A template name *)
(* is a number 1..MaxName (ordered as the strings are) or NoName (the key   *)
(* is absent, metadata.get returns None).  A primary category is a string   *)
(* or "none" (key absent, or a mapping without a truthy primary).  A field  *)
(* listed in a descriptor's `bad` set holds null, a value on which the      *)
(* statement that reads the field raises, instead of what is listed.        *)
(***************************************************************************)
EXTENDS Integers, Sequences, FiniteSets, TLC

VARIABLES
    \* ---- registry builder
    pc,         \* position of RegistryBuilder.run
    rootExists, \* whether templates_dir exists
    todo,       \* directory entries iterdir() has not yielded yet
    registry,   \* self.registry (without the constant version and timestamp)
    lastError,  \* the last process_template call printed "Error processing"
    parsed,     \* history: what each template with a mapping descriptor declares
    written,    \* the document write_registry serialized, if any
    rc,         \* what run returned
    tree,       \* SpecDet only: the descriptors of the template directories
    order,      \* SpecDet only: the order in which iterdir() yields them
    \* ---- template validator
    vpc,        \* position of main / validate_all_templates / validate
    vmode,      \* "all": every template under the root; "one": the named template
    vroot,      \* whether the templates root exists
    vn,         \* the number of template directories under the root
    vtodo,      \* template directories not validated yet
    tmpl,       \* the template directory under validation
    errors,     \* self.errors
    warnings,   \* self.warnings
    info,       \* self.info
    all_valid,  \* validate_all_templates' flag
    results,    \* history: what validate() returned, per validated template
    vrc         \* the process exit code

bvars == <<pc, rootExists, todo, registry, lastError, parsed, written, rc, tree, order>>
vvars == <<vpc, vmode, vroot, vn, vtodo, tmpl, errors, warnings, info, all_valid, results, vrc>>
vars == <<pc, rootExists, todo, registry, lastError, parsed, written, rc, tree, order,
          vpc, vmode, vroot, vn, vtodo, tmpl, errors, warnings, info, all_valid, results,
          vrc>>

----------------------------------------------------------------------------
(* Bounds *)

MaxTemplates == 2
MaxName == 2
MaxVersions == 1

NoName == 0

Names == 1..MaxName
Categories == {"c1", "c2"}
Authors == {"ann"}
TagLists == {<<>>, <<"t1">>, <<"t1", "t2">>}
TypedFields == {"features", "categories", "tags", "versions", "author"}

----------------------------------------------------------------------------
(* Template descriptors as the builder reads them *)

\* A directory entry of the root that scan_templates passes over silently
\* (a file, or a hidden directory).
SkippedEntry ==
    [parse |-> "skipped", name |-> NoName, cat |-> "none", tags |-> <<>>,
     nvers |-> 0, author |-> "none", bad |-> {}]

\* A template directory with no metadata.yaml.
NoMetadata == [SkippedEntry EXCEPT !.parse = "nofile"]

\* metadata.yaml is not valid YAML: yaml.safe_load raises.
YamlError == [SkippedEntry EXCEPT !.parse = "yamlerr"]

\* metadata.yaml parses to something that is no mapping (an empty file gives None).
NotMapping == [SkippedEntry EXCEPT !.parse = "notmap"]

MapDescriptors ==
    [parse : {"map"}, name : {NoName} \cup Names, cat : {"none"} \cup Categories,
     tags : TagLists, nvers : 0..MaxVersions, author : {"none"} \cup Authors,
     bad : {{}} \cup {{f} : f \in TypedFields}]

Descriptors == {SkippedEntry, NoMetadata, YamlError, NotMapping} \cup MapDescriptors

\* The descriptors that differ in what the indexes see: names, primary
\* category, tags, and every place where process_template can raise.
IndexDescriptors ==
    {d \in Descriptors :
        /\ d.nvers = 0 /\ d.author = "none"
        /\ d.cat \in {"none", "c1"} /\ d.tags \in {<<>>, <<"t1">>}}

----------------------------------------------------------------------------
(* Sorting, as list.sort does it *)

\* list.sort raises TypeError as soon as it compares None with anything; it
\* compares nothing when the list has fewer than two elements.
SortRaises(names) ==
    Len(names) >= 2 /\ \E i \in 1..Len(names) : names[i] = NoName

RECURSIVE InsertName(_, _)
InsertName(n, s) ==
    IF s = <<>> THEN <<n>>
    ELSE IF n < Head(s) THEN <<n>> \o s
    ELSE <<Head(s)>> \o InsertName(n, Tail(s))

\* Mutant: the name lists are left as they were appended.
SortNamesSkipped(s) == s

RECURSIVE SortNames(_)
SortNames(s) ==
    IF s = <<>> THEN <<>>
    ELSE InsertName(s[Len(s)], SortNames(SubSeq(s, 1, Len(s) - 1)))

\* Stable: an entry goes after the entries of the same name that precede it.
RECURSIVE InsertEntry(_, _)
InsertEntry(e, s) ==
    IF s = <<>> THEN <<e>>
    ELSE IF e.name < Head(s).name THEN <<e>> \o s
    ELSE <<Head(s)>> \o InsertEntry(e, Tail(s))

RECURSIVE SortTemplates(_)
SortTemplates(s) ==
    IF s = <<>> THEN <<>>
    ELSE InsertEntry(s[Len(s)], SortTemplates(SubSeq(s, 1, Len(s) - 1)))

\* The author names in ascending order.
AuthorOrder == <<"ann">>

\* sorted(list(authors))
SortedAuthors(S) == SelectSeq(AuthorOrder, LAMBDA a : a \in S)

----------------------------------------------------------------------------
(* Template directories as the validator reads them *)

RequiredFields ==
    <<"name", "displayName", "description", "author", "categories", "version", "versions">>
RecommendedFields == <<"tags", "features", "requirements", "complexity">>
RequiredVersionFields == <<"date", "policyLibrary", "openshift", "acm", "changes">>

SeqRange(q) == {q[i] : i \in 1..Len(q)}

AllVersionFields == SeqRange(RequiredVersionFields)

\* The keys a descriptor of the model always has.
FixedKeys == {"displayName", "description", "features", "requirements", "complexity"}

\* The versions mapping: null, or its entries in document order.
NullVersions == [null |-> TRUE, entries |-> <<>>]
VersionsOf(es) == [null |-> FALSE, entries |-> es]
VersionEntry(l, isDict, fs) == [label |-> l, isDict |-> isDict, fields |-> fs]

VersionsValues ==
    {NullVersions,
     VersionsOf(<<VersionEntry("1.0", TRUE, AllVersionFields)>>),
     VersionsOf(<<VersionEntry("1.0", TRUE, AllVersionFields \ {"date"})>>),
     VersionsOf(<<VersionEntry("1.0", FALSE, {})>>)}

\* metadata.yaml. A value counts only when its key is among keys.
\*   author:     "notdict", "noname", "ok"
\*   categories: "null" (`in` raises), "noprimary", "ok"
\*   version:    "bad" (no mapping: .get raises), "nolatest", or the latest label
NoMetadataFile ==
    [parse |-> "nofile", keys |-> {}, author |-> "ok", categories |-> "ok",
     version |-> "nolatest", versions |-> VersionsOf(<<>>)]

MetadataMaps ==
    {m \in [parse : {"map"},
            keys : {FixedKeys \cup k :
                      k \in SUBSET {"name", "author", "categories", "version", "versions", "tags"}},
            author : {"notdict", "noname", "ok"},
            categories : {"null", "noprimary", "ok"},
            version : {"bad", "nolatest", "1.0", "2.0"},
            versions : VersionsValues \cup {VersionsOf(<<>>)}] :
        /\ "tags" \in m.keys
        /\ "author" \notin m.keys => m.author = "ok"
        /\ "categories" \notin m.keys => m.categories = "ok"
        /\ "version" \notin m.keys => m.version = "nolatest"
        /\ ("versions" \in m.keys) = (m.versions \in VersionsValues)}

Metadatas ==
    {NoMetadataFile, [NoMetadataFile EXCEPT !.parse = "yamlerr"],
     [NoMetadataFile EXCEPT !.parse = "notmap"]} \cup MetadataMaps

\* versions/: absent, a regular file, or a directory of version directories.
\*   chart: "missing", "invalid" (not YAML, or no mapping), "nodeps", "nolib", "ok"
VersionDir(c, v) == [name |-> "1.0", chart |-> c, values |-> v, converters |-> FALSE]

VersionsDirs ==
    {[kind |-> "absent", dirs |-> <<>>], [kind |-> "file", dirs |-> <<>>],
     [kind |-> "dir", dirs |-> <<>>]} \cup
    {[kind |-> "dir", dirs |-> <<VersionDir(c, TRUE)>>] : c \in {"missing", "nolib", "ok"}}

\* examples/: absent, or a directory of *.yaml files.
\*   doc: "invalid" (not YAML), "notdict", "nostack", "ok"
ExamplesDirs ==
    {[kind |-> "absent", files |-> <<>>], [kind |-> "dir", files |-> <<>>]} \cup
    {[kind |-> "dir", files |-> <<[name |-> "basic.yaml", doc |-> c]>>] :
        c \in {"notdict", "ok"}}

Templates ==
    [readme : BOOLEAN, meta : Metadatas, versions : VersionsDirs, examples : ExamplesDirs]

GoodMetadata ==
    [parse |-> "map",
     keys |-> FixedKeys \cup {"name", "author", "categories", "version", "versions", "tags"},
     author |-> "ok", categories |-> "ok", version |-> "1.0",
     versions |-> VersionsOf(<<VersionEntry("1.0", TRUE, AllVersionFields)>>)]

\* The templates of the multi-template runs: the descriptor is complete or
\* absent, the directories vary.
FewTemplates ==
    {t \in Templates :
        /\ t.meta \in {GoodMetadata, NoMetadataFile}
        /\ t.examples.kind = "dir" /\ t.examples.files /= <<>>
        /\ t.examples.files[1].doc = "ok"}

NoTemplate ==
    [readme |-> FALSE, meta |-> NoMetadataFile,
     versions |-> [kind |-> "absent", dirs |-> <<>>],
     examples |-> [kind |-> "absent", files |-> <<>>]]

----------------------------------------------------------------------------
(* TemplateValidator *)

Msg(k, a) == [k |-> k, a |-> a]

NoFindings == [errors |-> <<>>, warnings |-> <<>>, info |-> <<>>, raised |-> FALSE]

\* The findings of b after those of a.
Then(a, b) ==
    [errors |-> a.errors \o b.errors, warnings |-> a.warnings \o b.warnings,
     info |-> a.info \o b.info, raised |-> a.raised \/ b.raised]

\* One message of kind k for each element of q that is not in present.
MissingOf(q, present, k) ==
    LET miss == SelectSeq(q, LAMBDA f : f \notin present)
    IN  [i \in 1..Len(miss) |-> Msg(k, miss[i])]

ValidateStructure(t) ==
    [NoFindings EXCEPT !.errors =
        (IF t.meta.parse = "nofile" THEN <<Msg("Missing required file", "metadata.yaml")>> ELSE <<>>)
        \o (IF ~t.readme THEN <<Msg("Missing required file", "README.md")>> ELSE <<>>)
        \o (IF t.versions.kind = "absent"
            THEN <<Msg("Missing required directory", "versions")>> ELSE <<>>)
        \o (IF t.examples.kind = "absent"
            THEN <<Msg("Missing required directory", "examples")>> ELSE <<>>)]

\* The sub-checks of validate_metadata on a descriptor that parsed to a
\* mapping, each as it runs when it is reached: what it appends and whether
\* it raises.
CheckRequired(m) ==
    [NoFindings EXCEPT !.errors = MissingOf(RequiredFields, m.keys, "missing required field")]

CheckAuthor(m) ==
    [NoFindings EXCEPT !.errors =
        IF "author" \notin m.keys \/ m.author = "ok" THEN <<>>
        ELSE IF m.author = "notdict" THEN <<Msg("author must be a dictionary", "")>>
        ELSE <<Msg("author must have a name field", "")>>]

CheckCategories(m) ==
    IF "categories" \notin m.keys \/ m.categories = "ok" THEN NoFindings
    ELSE IF m.categories = "null" THEN [NoFindings EXCEPT !.raised = TRUE]
    ELSE [NoFindings EXCEPT !.errors = <<Msg("categories must have a primary category", "")>>]

VersionLabels(m) == {m.versions.entries[i].label : i \in 1..Len(m.versions.entries)}

\* latest = metadata["version"].get("latest")
Latest(m) == IF m.version = "nolatest" THEN "None" ELSE m.version

CheckVersion(m) ==
    IF "version" \notin m.keys THEN NoFindings
    ELSE IF m.version = "bad" THEN [NoFindings EXCEPT !.raised = TRUE]
    ELSE LET e1 == IF m.version = "nolatest"
                   THEN <<Msg("version must specify latest", "")>> ELSE <<>>
         IN  IF "versions" \notin m.keys THEN [NoFindings EXCEPT !.errors = e1]
             ELSE IF m.versions.null THEN [NoFindings EXCEPT !.errors = e1, !.raised = TRUE]
             ELSE IF Latest(m) \notin VersionLabels(m)
             THEN [NoFindings EXCEPT !.errors =
                     e1 \o <<Msg("Latest version not found in versions", Latest(m))>>]
             ELSE [NoFindings EXCEPT !.errors = e1]

CheckVersionEntry(e) ==
    IF ~e.isDict
    THEN [NoFindings EXCEPT !.errors = <<Msg("Version must have details", e.label)>>]
    ELSE [NoFindings EXCEPT !.warnings =
            LET miss == SelectSeq(RequiredVersionFields, LAMBDA f : f \notin e.fields)
            IN  [i \in 1..Len(miss) |-> Msg("Version missing field: " \o miss[i], e.label)]]

RECURSIVE CheckEntries(_)
CheckEntries(es) ==
    IF es = <<>> THEN NoFindings
    ELSE Then(CheckVersionEntry(Head(es)), CheckEntries(Tail(es)))

CheckVersionEntries(m) ==
    IF "versions" \notin m.keys THEN NoFindings
    ELSE IF m.versions.null THEN [NoFindings EXCEPT !.raised = TRUE]
    ELSE CheckEntries(m.versions.entries)

CheckRecommended(m) ==
    [NoFindings EXCEPT !.warnings =
        MissingOf(RecommendedFields, m.keys, "Consider adding recommended field")]

InfoLines(m) ==
    IF "version" \in m.keys /\ m.version = "bad" THEN [NoFindings EXCEPT !.raised = TRUE]
    ELSE IF "versions" \in m.keys /\ m.versions.null
    THEN [NoFindings EXCEPT
            !.info = <<Msg("Template name", IF "name" \in m.keys THEN "a" ELSE "None"),
                       Msg("Latest version", IF "version" \in m.keys THEN Latest(m) ELSE "None")>>,
            !.raised = TRUE]
    ELSE [NoFindings EXCEPT
            !.info = <<Msg("Template name", IF "name" \in m.keys THEN "a" ELSE "None"),
                       Msg("Latest version", IF "version" \in m.keys THEN Latest(m) ELSE "None"),
                       Msg("Total versions", ToString(Len(m.versions.entries)))>>]

SubChecks(m) ==
    <<CheckRequired(m), CheckAuthor(m), CheckCategories(m), CheckVersion(m),
      CheckVersionEntries(m), CheckRecommended(m), InfoLines(m)>>

\* The statements of the try block in order: the first that raises ends it.
RECURSIVE RunInTry(_)
RunInTry(checks) ==
    IF checks = <<>> THEN NoFindings
    ELSE IF Head(checks).raised THEN Head(checks)
    ELSE Then(Head(checks), RunInTry(Tail(checks)))

\* validate_metadata: every exception is caught and recorded as one error.
ValidateMetadata(m) ==
    IF m.parse = "yamlerr"
    THEN [NoFindings EXCEPT !.errors = <<Msg("Invalid YAML in metadata.yaml", "")>>]
    ELSE IF m.parse = "notmap"
    THEN [NoFindings EXCEPT !.errors = <<Msg("Error reading metadata.yaml", "")>>]
    ELSE LET r == RunInTry(SubChecks(m))
         IN  IF r.raised
             THEN [r EXCEPT !.errors = @ \o <<Msg("Error reading metadata.yaml", "")>>,
                            !.raised = FALSE]
             ELSE r

ValidateVersionDir(d) ==
    [errors |->
        (IF d.chart = "missing"
         THEN <<Msg("Version missing required file Chart.yaml", d.name)>> ELSE <<>>)
        \o (IF ~d.values
            THEN <<Msg("Version missing required file values.yaml", d.name)>> ELSE <<>>)
        \o (IF d.chart = "nolib" THEN <<Msg("Missing policy-library dependency", d.name)>>
            ELSE IF d.chart = "invalid" THEN <<Msg("Invalid Chart.yaml", d.name)>>
            ELSE <<>>),
     warnings |->
        (IF d.chart = "nodeps" THEN <<Msg("Chart.yaml missing dependencies", d.name)>> ELSE <<>>)
        \o (IF ~d.converters THEN <<Msg("No converters directory", d.name)>> ELSE <<>>),
     info |-> <<Msg("Found version", d.name)>>,
     raised |-> FALSE]

RECURSIVE ValidateVersionDirs(_)
ValidateVersionDirs(ds) ==
    IF ds = <<>> THEN NoFindings
    ELSE Then(ValidateVersionDir(Head(ds)), ValidateVersionDirs(Tail(ds)))

\* validate_versions: iterdir() on a regular file raises NotADirectoryError,
\* which nothing catches.
ValidateVersions(t) ==
    IF t.versions.kind = "absent" THEN NoFindings
    ELSE IF t.versions.kind = "file" THEN [NoFindings EXCEPT !.raised = TRUE]
    ELSE IF t.versions.dirs = <<>>
    THEN [NoFindings EXCEPT !.errors = <<Msg("No version directories found in versions/", "")>>]
    ELSE ValidateVersionDirs(t.versions.dirs)

ValidateExample(f) ==
    IF f.doc = "invalid"
    THEN [NoFindings EXCEPT !.errors = <<Msg("Example: Invalid YAML", f.name)>>]
    ELSE [errors |-> IF f.doc = "notdict"
                     THEN <<Msg("Example: Not a valid YAML dictionary", f.name)>> ELSE <<>>,
          warnings |-> IF f.doc = "nostack"
                       THEN <<Msg("Example: Missing 'stack' key", f.name)>> ELSE <<>>,
          info |-> <<Msg("Found example", f.name)>>,
          raised |-> FALSE]

RECURSIVE ValidateExampleFiles(_)
ValidateExampleFiles(fs) ==
    IF fs = <<>> THEN NoFindings
    ELSE Then(ValidateExample(Head(fs)), ValidateExampleFiles(Tail(fs)))

ValidateExamples(t) ==
    IF t.examples.kind = "absent" THEN NoFindings
    ELSE IF t.examples.files = <<>>
    THEN [NoFindings EXCEPT !.warnings = <<Msg("No example files found in examples/", "")>>]
    ELSE ValidateExampleFiles(t.examples.files)

\* validate: the four checks in order; raised when an exception leaves it.
Validate(t) ==
    RunInTry(<<ValidateStructure(t),
               IF t.meta.parse /= "nofile" THEN ValidateMetadata(t.meta) ELSE NoFindings,
               ValidateVersions(t),
               ValidateExamples(t)>>)

----------------------------------------------------------------------------
(* RegistryBuilder *)

EmptyRegistry ==
    [templates |-> <<>>, categories |-> <<>>, tags |-> <<>>,
     stats |-> [total_templates |-> 0, total_versions |-> 0, authors |-> {}]]

\* A dict of lists in insertion order: a sequence of [key, names].
HasKey(idx, k) == \E i \in 1..Len(idx) : idx[i].key = k

Bucket(idx, k) ==
    IF HasKey(idx, k)
    THEN (idx[CHOOSE i \in 1..Len(idx) : idx[i].key = k]).names
    ELSE <<>>

\* Mutant: the bucket is replaced, not appended to.
IndexAppendReplacing(idx, k, name) ==
    IF \E i \in 1..Len(idx) : idx[i].key = k
    THEN [i \in 1..Len(idx) |->
            IF idx[i].key = k THEN [key |-> k, names |-> <<name>>] ELSE idx[i]]
    ELSE Append(idx, [key |-> k, names |-> <<name>>])

\* if k not in idx: idx[k] = [] ; idx[k].append(name)
IndexAppend(idx, k, name) ==
    IF HasKey(idx, k)
    THEN [i \in 1..Len(idx) |->
            IF idx[i].key = k
            THEN [key |-> k, names |-> Append(idx[i].names, name)]
            ELSE idx[i]]
    ELSE Append(idx, [key |-> k, names |-> <<name>>])

\* The summary record; of its fields the model keeps the name and the number
\* of keys of versions (None, for an absent or null versions, has none).
TemplateEntry(d) ==
    [name |-> d.name,
     versions |-> IF "versions" \in d.bad THEN 0 ELSE d.nvers]

\* Mutant: the entry is not appended.
AppendEntrySkipped(reg, d) == reg

AppendEntry(reg, d) ==
    [reg EXCEPT !.templates = Append(@, TemplateEntry(d))]

UpdateCategoryIndex(reg, d) ==
    IF d.cat /= "none"
    THEN [reg EXCEPT !.categories = IndexAppend(@, d.cat, d.name)]
    ELSE reg

RECURSIVE AppendTags(_, _, _)
AppendTags(idx, ts, name) ==
    IF ts = <<>> THEN idx
    ELSE AppendTags(IndexAppend(idx, Head(ts), name), Tail(ts), name)

UpdateTagIndex(reg, d) ==
    [reg EXCEPT !.tags = AppendTags(@, d.tags, d.name)]

CountTemplate(reg) ==
    [reg EXCEPT !.stats.total_templates = @ + 1]

CountVersions(reg, d) ==
    [reg EXCEPT !.stats.total_versions = @ + d.nvers]

AddAuthor(reg, d) ==
    IF d.author /= "none"
    THEN [reg EXCEPT !.stats.authors = @ \cup {d.author}]
    ELSE reg

\* process_template: the registry it leaves and whether it printed an error.
\* An exception leaves what the statements before it did.
ProcessTemplate(reg, d) ==
    IF d.parse /= "map" THEN [reg |-> reg, error |-> TRUE]
    ELSE IF "features" \in d.bad THEN [reg |-> reg, error |-> TRUE]
    ELSE LET r1 == AppendEntry(reg, d) IN
    IF "categories" \in d.bad THEN [reg |-> r1, error |-> TRUE]
    ELSE LET r2 == UpdateCategoryIndex(r1, d) IN
    IF "tags" \in d.bad THEN [reg |-> r2, error |-> TRUE]
    ELSE LET r3 == CountTemplate(UpdateTagIndex(r2, d)) IN
    IF "versions" \in d.bad THEN [reg |-> r3, error |-> TRUE]
    ELSE LET r4 == CountVersions(r3, d) IN
    IF "author" \in d.bad THEN [reg |-> r4, error |-> TRUE]
    ELSE [reg |-> AddAuthor(r4, d), error |-> FALSE]

\* One iteration of scan_templates' loop over a directory entry d.
ScanEntry(reg, d) ==
    IF d.parse \in {"skipped", "nofile"}
    THEN [reg |-> reg, error |-> FALSE]
    ELSE ProcessTemplate(reg, d)

\* What a template with a mapping descriptor declares, and whether
\* process_template went through it without an error.
Declared(d, error) ==
    [name |-> d.name,
     cat |-> IF "categories" \in d.bad THEN "none" ELSE d.cat,
     tags |-> IF "tags" \in d.bad THEN <<>> ELSE d.tags,
     ok |-> ~error]

EntryNames(ts) == [i \in 1..Len(ts) |-> ts[i].name]

SortIndex(idx) ==
    [i \in 1..Len(idx) |-> [key |-> idx[i].key, names |-> SortNames(idx[i].names)]]

\* Whether one of build_index's sorts raises.
BuildIndexRaises(reg) ==
    \/ SortRaises(EntryNames(reg.templates))
    \/ \E i \in 1..Len(reg.categories) : SortRaises(reg.categories[i].names)
    \/ \E i \in 1..Len(reg.tags) : SortRaises(reg.tags[i].names)

BuildIndex(reg) ==
    [templates |-> SortTemplates(reg.templates),
     categories |-> SortIndex(reg.categories),
     tags |-> SortIndex(reg.tags),
     stats |-> [reg.stats EXCEPT !.authors = SortedAuthors(@)]]

\* generate_readme_snippet's next(...) raises StopIteration when a name of a
\* category bucket is the name of no entry.
ReadmeRaises(reg) ==
    \E i \in 1..Len(reg.categories) :
        \E j \in 1..Len(reg.categories[i].names) :
            \A k \in 1..Len(reg.templates) :
                reg.templates[k].name /= reg.categories[i].names[j]

NotWritten == [wrote |-> FALSE, doc |-> EmptyRegistry]

BuilderInit ==
    /\ pc = "start"
    /\ rootExists \in BOOLEAN
    /\ todo \in 0..MaxTemplates
    /\ registry = EmptyRegistry
    /\ lastError = FALSE
    /\ parsed = <<>>
    /\ written = NotWritten
    /\ rc = "none"

BuilderIdle ==
    /\ pc = "idle" /\ rootExists = FALSE /\ todo = 0 /\ registry = EmptyRegistry
    /\ lastError = FALSE /\ parsed = <<>> /\ written = NotWritten /\ rc = "none"
    /\ tree = <<>> /\ order = <<>>

ValidatorIdle ==
    /\ vpc = "idle" /\ vmode = "all" /\ vroot = FALSE /\ vn = 0 /\ vtodo = 0
    /\ tmpl = NoTemplate
    /\ errors = <<>> /\ warnings = <<>> /\ info = <<>> /\ all_valid = TRUE
    /\ results = <<>> /\ vrc = "none"

\* run: the templates directory does not exist.
RunNoRoot ==
    /\ pc = "start" /\ ~rootExists
    /\ pc' = "done" /\ rc' = "1"
    /\ UNCHANGED <<rootExists, todo, registry, lastError, parsed, written, tree, order>>
    /\ UNCHANGED vvars

\* run: the directory exists, scan_templates starts.
RunStart ==
    /\ pc = "start" /\ rootExists
    /\ pc' = "scan"
    /\ UNCHANGED <<rootExists, todo, registry, lastError, parsed, written, rc, tree, order>>
    /\ UNCHANGED vvars

Scan(d) ==
    /\ pc = "scan" /\ todo > 0
    /\ LET r == ScanEntry(registry, d) IN
        /\ registry' = r.reg
        /\ lastError' = r.error
        /\ parsed' = IF d.parse = "map"
                      THEN Append(parsed, Declared(d, r.error))
                      ELSE parsed
    /\ todo' = todo - 1
    /\ UNCHANGED <<pc, rootExists, written, rc, tree, order>>
    /\ UNCHANGED vvars

\* scan_templates: iterdir() yields the next entry, whatever it is.
ScanStep == \E d \in Descriptors : Scan(d)

\* build_index, all sorts succeeding.
BuildIndexStep ==
    /\ pc = "scan" /\ todo = 0
    /\ ~BuildIndexRaises(registry)
    /\ registry' = BuildIndex(registry)
    /\ pc' = "indexed"
    /\ UNCHANGED <<rootExists, todo, lastError, parsed, written, rc, tree, order>>
    /\ UNCHANGED vvars

\* build_index, a sort raising TypeError: the exception leaves run. The sort
\* of templates has come first and leaves its elements in some order.
BuildIndexCrash ==
    /\ pc = "scan" /\ todo = 0
    /\ BuildIndexRaises(registry)
    /\ \E p \in Permutations(1..Len(registry.templates)) :
         registry' = [registry EXCEPT
                        !.templates = [i \in 1..Len(registry.templates) |->
                                         registry.templates[p[i]]]]
    /\ pc' = "crashed" /\ rc' = "raised"
    /\ UNCHANGED <<rootExists, todo, lastError, parsed, written, tree, order>>
    /\ UNCHANGED vvars

\* write_registry: the YAML and the JSON document.
WriteRegistry ==
    /\ pc = "indexed"
    /\ written' = [wrote |-> TRUE, doc |-> registry]
    /\ pc' = "written"
    /\ UNCHANGED <<rootExists, todo, registry, lastError, parsed, rc, tree, order>>
    /\ UNCHANGED vvars

\* generate_readme_snippet, printed, and run returns 0.
GenerateReadme ==
    /\ pc = "written"
    /\ IF ReadmeRaises(registry)
       THEN pc' = "crashed" /\ rc' = "raised"
       ELSE pc' = "done" /\ rc' = "0"
    /\ UNCHANGED <<rootExists, todo, registry, lastError, parsed, written, tree, order>>
    /\ UNCHANGED vvars

----------------------------------------------------------------------------
(* validate-template.py: main, validate_all_templates, validate *)

ValidatorInit ==
    /\ vpc = "start"
    /\ vmode \in {"all", "one"}
    /\ vroot \in BOOLEAN
    /\ vn \in 0..MaxTemplates
    /\ vmode = "one" => vroot /\ vn = 1
    /\ ~vroot => vn = 0
    /\ vtodo = vn
    /\ tmpl = NoTemplate
    /\ errors = <<>> /\ warnings = <<>> /\ info = <<>>
    /\ all_valid = TRUE
    /\ results = <<>>
    /\ vrc = "none"

\* validate_all_templates: the root does not exist.
ValidateAllNoRoot ==
    /\ vpc = "start" /\ vmode = "all" /\ ~vroot
    /\ vpc' = "exited" /\ vrc' = "1"
    /\ UNCHANGED <<vmode, vroot, vn, vtodo, tmpl, errors, warnings, info, all_valid, results>>
    /\ UNCHANGED bvars

\* validate_all_templates: the root holds no template directory.
ValidateAllNoTemplates ==
    /\ vpc = "start" /\ vmode = "all" /\ vroot /\ vn = 0
    /\ vpc' = "exited" /\ vrc' = "0"
    /\ UNCHANGED <<vmode, vroot, vn, vtodo, tmpl, errors, warnings, info, all_valid, results>>
    /\ UNCHANGED bvars

ValidateAllStart ==
    /\ vpc = "start" /\ vmode = "all" /\ vroot /\ vn > 0
    /\ vpc' = "loop"
    /\ UNCHANGED <<vmode, vroot, vn, vtodo, tmpl, errors, warnings, info, all_valid, results,
                   vrc>>
    /\ UNCHANGED bvars

\* A fresh TemplateValidator on t, and validate() returning.
Validated(t) ==
    LET r == Validate(t) IN
    /\ ~r.raised
    /\ tmpl' = t
    /\ errors' = r.errors /\ warnings' = r.warnings /\ info' = r.info
    /\ results' = Append(results, Len(r.errors) = 0)

\* A fresh TemplateValidator on t, and an exception leaving validate(): the
\* interpreter prints the traceback and exits with status 1.
Crashed(t) ==
    LET r == Validate(t) IN
    /\ r.raised
    /\ tmpl' = t
    /\ errors' = r.errors /\ warnings' = r.warnings /\ info' = r.info
    /\ vpc' = "crashed" /\ vrc' = "1"
    /\ UNCHANGED <<results, all_valid>>

\* One iteration of validate_all_templates' loop.
ValidateNext ==
    /\ vpc = "loop" /\ vtodo > 0
    /\ \E t \in FewTemplates :
         /\ Validated(t)
         /\ all_valid' = (all_valid /\ Len(Validate(t).errors) = 0)
    /\ vtodo' = vtodo - 1
    /\ UNCHANGED <<vpc, vmode, vroot, vn, vrc>>
    /\ UNCHANGED bvars

ValidateNextCrash ==
    /\ vpc = "loop" /\ vtodo > 0
    /\ \E t \in FewTemplates : Crashed(t)
    /\ vtodo' = vtodo - 1
    /\ UNCHANGED <<vmode, vroot, vn>>
    /\ UNCHANGED bvars

\* validate_all_templates returns all_valid and main returns the exit code.
ValidateAllReturn ==
    /\ vpc = "loop" /\ vtodo = 0
    /\ vpc' = "exited"
    /\ vrc' = IF all_valid THEN "0" ELSE "1"
    /\ UNCHANGED <<vmode, vroot, vn, vtodo, tmpl, errors, warnings, info, all_valid, results>>
    /\ UNCHANGED bvars

\* main on one named template.
ValidateOne ==
    /\ vpc = "start" /\ vmode = "one"
    /\ \E t \in Templates :
         /\ Validated(t)
         /\ vrc' = IF Len(Validate(t).errors) = 0 THEN "0" ELSE "1"
    /\ vpc' = "exited"
    /\ vtodo' = 0
    /\ UNCHANGED <<vmode, vroot, vn, all_valid>>
    /\ UNCHANGED bvars

ValidateOneCrash ==
    /\ vpc = "start" /\ vmode = "one"
    /\ \E t \in Templates : Crashed(t)
    /\ vtodo' = 0
    /\ UNCHANGED <<vmode, vroot, vn>>
    /\ UNCHANGED bvars

InitValidator ==
    /\ BuilderIdle
    /\ ValidatorInit

NextValidator ==
    \/ ValidateAllNoRoot
    \/ ValidateAllNoTemplates
    \/ ValidateAllStart
    \/ ValidateNext
    \/ ValidateNextCrash
    \/ ValidateAllReturn
    \/ ValidateOne
    \/ ValidateOneCrash

SpecValidator == InitValidator /\ [][NextValidator]_vars

Init ==
    /\ BuilderInit
    /\ tree = <<>> /\ order = <<>>
    /\ ValidatorIdle

Next ==
    \/ RunNoRoot
    \/ RunStart
    \/ ScanStep
    \/ BuildIndexStep
    \/ BuildIndexCrash
    \/ WriteRegistry
    \/ GenerateReadme

Spec == Init /\ [][Next]_vars

ScanStepIndex == \E d \in IndexDescriptors : Scan(d)

NextIndex ==
    \/ RunNoRoot
    \/ RunStart
    \/ ScanStepIndex
    \/ BuildIndexStep
    \/ BuildIndexCrash
    \/ WriteRegistry
    \/ GenerateReadme

SpecIndex == Init /\ [][NextIndex]_vars

----------------------------------------------------------------------------
(* Two enumeration orders of one tree *)

\* Templates whose descriptors process_template goes through, and
\* directories without a descriptor.
DetDescriptors ==
    {NoMetadata} \cup
    {d \in MapDescriptors :
        d.bad = {} /\ d.author = "none" /\ d.tags \in {<<>>, <<"t1">>}}

Orders(n) == Permutations(1..n)

InitDet ==
    /\ BuilderInit
    /\ rootExists
    /\ tree \in [1..todo -> DetDescriptors]
    /\ order \in Orders(todo)
    /\ ValidatorIdle

\* scan_templates: iterdir() yields the next directory of the tree.
ScanStepDet ==
    /\ todo > 0
    /\ Scan(tree[order[Len(tree) - todo + 1]])

NextDet ==
    \/ RunStart
    \/ ScanStepDet
    \/ BuildIndexStep
    \/ BuildIndexCrash
    \/ WriteRegistry
    \/ GenerateReadme

SpecDet == InitDet /\ [][NextDet]_vars

\* The registry scan_templates leaves when iterdir() yields the directories
\* of t in the order ord.
RECURSIVE ScanAll(_, _, _)
ScanAll(reg, t, ord) ==
    IF ord = <<>> THEN reg
    ELSE ScanAll(ScanEntry(reg, t[Head(ord)]).reg, t, Tail(ord))

\* What a run over t writes under the order ord, if build_index does not raise.
RunOutcome(t, ord) ==
    LET r == ScanAll(EmptyRegistry, t, ord)
    IN  IF BuildIndexRaises(r)
        THEN NotWritten
        ELSE [wrote |-> TRUE, doc |-> BuildIndex(r)]

----------------------------------------------------------------------------
(* Properties of the registry builder *)

RECURSIVE SumVersions(_)
SumVersions(ts) ==
    IF ts = <<>> THEN 0 ELSE Head(ts).versions + SumVersions(Tail(ts))

CountsAgree(reg) ==
    /\ reg.stats.total_templates = Len(reg.templates)
    /\ reg.stats.total_versions = SumVersions(reg.templates)

\* C1: count invariant. After any sequence of process_template calls, and in
\* the document written, stats.total_templates is the number of entries of
\* templates and stats.total_versions is the sum of their numbers of versions.
C1_CountInvariant ==
    /\ CountsAgree(registry)
    /\ written.wrote => CountsAgree(written.doc)

InBucket(idx, k, name) ==
    \E i \in 1..Len(Bucket(idx, k)) : Bucket(idx, k)[i] = name

\* The document holds the template that declares o: one entry of its name,
\* the name in the bucket of its primary category and of each of its tags.
Registered(doc, o) ==
    /\ Cardinality({k \in 1..Len(doc.templates) : doc.templates[k].name = o.name}) = 1
    /\ o.cat /= "none" => InBucket(doc.categories, o.cat, o.name)
    /\ \A j \in 1..Len(o.tags) : InBucket(doc.tags, o.tags[j], o.name)

\* C2 as stated: completeness. In the document a build writes, every
\* template whose descriptor parsed to a mapping has its name in exactly one
\* entry of templates, in the bucket of its primary category and in the
\* bucket of each tag it declares.
C2_Completeness_Original ==
    written.wrote => \A i \in 1..Len(parsed) : Registered(written.doc, parsed[i])

SoleName(i) == \A j \in 1..Len(parsed) : j /= i => parsed[j].name /= parsed[i].name

\* C2 amended: completeness. In the document a build writes, every template
\* that process_template went through without an error, and whose name no
\* other template of the tree declares, has its name in exactly one entry of
\* templates, in the bucket of its primary category and in the bucket of each
\* tag it declares.
C2_Completeness ==
    written.wrote =>
        \A i \in 1..Len(parsed) :
            (parsed[i].ok /\ SoleName(i)) => Registered(written.doc, parsed[i])

\* Two templates of different names, the same category and the same tag,
\* both processed without an error, and the registry written.
C2_Witness ==
    /\ written.wrote
    /\ Len(parsed) = 2
    /\ parsed[1].ok /\ parsed[2].ok
    /\ parsed[1].name /= parsed[2].name
    /\ parsed[1].cat = "c1" /\ parsed[2].cat = "c1"
    /\ parsed[1].tags = <<"t1">> /\ parsed[2].tags = <<"t1">>

\* C3: a template process_template fails on is skipped. A call that prints
\* an error leaves the registry as it was before the call.
C3_FailedTemplateSkipped ==
    [][(pc = "scan" /\ pc' = "scan" /\ lastError') => registry' = registry]_vars

\* C4: template isolation. With the root present no template content makes
\* an exception leave the builder's run or the validator's multi-template run.
C4_NoAbort ==
    /\ rootExists => pc /= "crashed"
    /\ vroot => vpc /= "crashed"

\* None compares with nothing.
NameLeq(a, b) == a /= NoName /\ b /= NoName /\ a <= b

IsSorted(names) == \A i \in 1..(Len(names) - 1) : NameLeq(names[i], names[i + 1])

IndexSorted(idx) == \A i \in 1..Len(idx) : IsSorted(idx[i].names)

\* C5: sort invariant at serialization. Whatever write_registry serializes
\* was written after the whole scan and after build_index: its templates are
\* in ascending order of name, and so is every category's and every tag's list.
C5_SortedAtSerialization ==
    written.wrote =>
        /\ todo = 0
        /\ IsSorted(EntryNames(written.doc.templates))
        /\ IndexSorted(written.doc.categories)
        /\ IndexSorted(written.doc.tags)

\* Two templates scanned in descending order of name, both in one category
\* and under one tag, and the registry written.
C5_Witness ==
    /\ written.wrote
    /\ Len(parsed) = 2
    /\ parsed[1].name > parsed[2].name
    /\ parsed[2].name /= NoName
    /\ Len(Bucket(written.doc.categories, "c1")) = 2
    /\ Len(Bucket(written.doc.tags, "t1")) = 2

Referential(reg) ==
    \A idx \in {reg.categories, reg.tags} :
        \A i \in 1..Len(idx) :
            \A j \in 1..Len(idx[i].names) :
                \E k \in 1..Len(reg.templates) :
                    reg.templates[k].name = idx[i].names[j]

\* C6: referential invariant. In every registry state, and in the document
\* written, every name of a category bucket or of a tag bucket is the name
\* of an entry of templates.
C6_Referential ==
    /\ Referential(registry)
    /\ written.wrote => Referential(written.doc)

\* A process_template call has just failed after it had indexed the
\* template's category: the entry is there, the template is not counted.
C6_Witness ==
    /\ pc = "scan"
    /\ lastError
    /\ Len(registry.categories) > 0
    /\ registry.stats.total_templates < Len(registry.templates)


\* C7: determinism. Whatever order iterdir() yields the directories of an
\* unchanged tree in, the run writes the same templates (content and
\* order), categories, tags and stats.
C7_Deterministic ==
    written.wrote =>
        \A q \in Orders(Len(tree)) : RunOutcome(tree, q) = written


----------------------------------------------------------------------------
(* Properties of the template validator *)

\* A validate() call on tmpl has returned.
HasValidated == results /= <<>> /\ vpc /= "crashed"

\* C8: validity signal. validate() returns true exactly when errors is
\* empty; a multi-template run over an existing root validates every template
\* under it and exits 0 exactly when every validate() returned true.
C8_ValiditySignal ==
    /\ HasValidated => (results[Len(results)] = (errors = <<>>))
    /\ (vmode = "all" /\ vroot /\ vpc \in {"exited", "crashed"}) =>
            /\ Len(results) = vn
            /\ vrc \in {"0", "1"}
            /\ (vrc = "0") = (\A i \in 1..Len(results) : results[i])

\* Every finding of f is in the report.
Reported(f) ==
    /\ SeqRange(f.errors) \subseteq SeqRange(errors)
    /\ SeqRange(f.warnings) \subseteq SeqRange(warnings)
    /\ SeqRange(f.info) \subseteq SeqRange(info)

\* C9: full diagnostic pass. When validate() has returned, the findings of
\* the versions and examples checks are in the report whatever structure and
\* metadata gave, and for a descriptor that parsed to a mapping the findings
\* of every sub-check of validate_metadata are in the report, whatever the
\* sub-checks before it found.
C9_FullDiagnosticPass ==
    HasValidated =>
        /\ Reported(ValidateVersions(tmpl))
        /\ Reported(ValidateExamples(tmpl))
        /\ tmpl.meta.parse = "map" =>
                \A i \in 1..Len(SubChecks(tmpl.meta)) :
                    ~SubChecks(tmpl.meta)[i].raised => Reported(SubChecks(tmpl.meta)[i])

LatestRuleKinds == {"version must specify latest", "Latest version not found in versions"}

LatestRuleErrors == SelectSeq(errors, LAMBDA e : e.k \in LatestRuleKinds)

\* C10: the version.latest rule. When validate_metadata has gone through a
\* descriptor with a version mapping without raising, the rule has recorded:
\* for a version without latest, the one error that latest is absent; for a
\* latest that is no key of the versions present, the one error naming it;
\* for a latest that is a key of versions, nothing.
C10_LatestRule ==
    LET m == tmpl.meta IN
    (/\ HasValidated
     /\ m.parse = "map" /\ "version" \in m.keys /\ m.version /= "bad"
     /\ ~RunInTry(SubChecks(m)).raised) =>
        /\ m.version = "nolatest" =>
                LatestRuleErrors = <<Msg("version must specify latest", "")>>
        /\ (m.version /= "nolatest" /\ "versions" \in m.keys
                /\ m.version \notin VersionLabels(m)) =>
                LatestRuleErrors = <<Msg("Latest version not found in versions", m.version)>>
        /\ (m.version /= "nolatest" /\ "versions" \in m.keys
                /\ m.version \in VersionLabels(m)) =>
                LatestRuleErrors = <<>>

----------------------------------------------------------------------------
(* A template validated, one missing required item added, validated again *)

RequiredFiles == <<"metadata.yaml", "README.md">>
RequiredDirs == <<"versions", "examples">>

\* What validate_structure and the required-field loop look for.
RequiredItems ==
    {[kind |-> "file", name |-> f] : f \in SeqRange(RequiredFiles)}
    \cup {[kind |-> "dir", name |-> d] : d \in SeqRange(RequiredDirs)}
    \cup {[kind |-> "field", name |-> f] : f \in SeqRange(RequiredFields)}

\* The check of item x finds it missing in t.
Missing(t, x) ==
    IF x.kind = "file"
    THEN IF x.name = "metadata.yaml" THEN t.meta.parse = "nofile" ELSE ~t.readme
    ELSE IF x.kind = "dir" THEN t[x.name].kind = "absent"
    ELSE t.meta.parse = "map" /\ x.name \notin t.meta.keys

\* The descriptors that are m with the key f added, whatever its value.
FieldAdded(m, f) ==
    LET k == [m EXCEPT !.keys = @ \cup {f}] IN
    IF f = "author" THEN {[k EXCEPT !.author = v] : v \in {"notdict", "noname", "ok"}}
    ELSE IF f = "categories"
    THEN {[k EXCEPT !.categories = v] : v \in {"null", "noprimary", "ok"}}
    ELSE IF f = "version"
    THEN {[k EXCEPT !.version = v] : v \in {"bad", "nolatest", "1.0", "2.0"}}
    ELSE IF f = "versions" THEN {[k EXCEPT !.versions = v] : v \in VersionsValues}
    ELSE {k}

\* The templates that are t with the missing item x added and nothing else
\* changed: a file with any content, a directory with any content.
Additions(t, x) ==
    IF x.kind = "file"
    THEN IF x.name = "metadata.yaml"
         THEN {[t EXCEPT !.meta = m] : m \in Metadatas \ {NoMetadataFile}}
         ELSE {[t EXCEPT !.readme = TRUE]}
    ELSE IF x.kind = "dir"
    THEN IF x.name = "versions"
         THEN {[t EXCEPT !.versions = d] : d \in {v \in VersionsDirs : v.kind = "dir"}}
         ELSE {[t EXCEPT !.examples = d] : d \in {v \in ExamplesDirs : v.kind = "dir"}}
    ELSE {[t EXCEPT !.meta = m] : m \in FieldAdded(t.meta, x.name)}

\* main on the template named before, after the item x was added to it.
Revalidate(x) ==
    /\ vpc = "exited" /\ vmode = "one"
    /\ Missing(tmpl, x)
    /\ \E t \in Additions(tmpl, x) :
         /\ Validated(t)
         /\ vrc' = IF Len(Validate(t).errors) = 0 THEN "0" ELSE "1"
    /\ vpc' = "rerun"
    /\ UNCHANGED <<vmode, vroot, vn, vtodo, all_valid>>
    /\ UNCHANGED bvars

RevalidateStep == \E x \in RequiredItems : Revalidate(x)

InitRepair ==
    /\ BuilderIdle
    /\ ValidatorInit
    /\ vmode = "one"

NextRepair ==
    \/ ValidateOne
    \/ ValidateOneCrash
    \/ RevalidateStep

SpecRepair == InitRepair /\ [][NextRepair]_vars

\* The error the check of item x records when it finds x missing.
ErrorOf(x) ==
    IF x.kind = "file" THEN Msg("Missing required file", x.name)
    ELSE IF x.kind = "dir" THEN Msg("Missing required directory", x.name)
    ELSE Msg("missing required field", x.name)

Without(errs, e) == SelectSeq(errs, LAMBDA z : z /= e)

\* The step validates again the template of the report at hand, with the
\* missing item x added to it.
Repaired(x) ==
    /\ vpc = "exited" /\ vpc' = "rerun"
    /\ Missing(tmpl, x)
    /\ tmpl' \in Additions(tmpl, x)

\* C11: validator monotonicity. When a required file, directory or metadata
\* field that was missing is added to a template and the template is validated
\* again, the errors of the new report are the errors of the previous report
\* without the error of the check of that item: none is added, no other is
\* lost.
C11_Monotonicity ==
    [][\A x \in RequiredItems : Repaired(x) => errors' = Without(errors, ErrorOf(x))]_vars

====
